---- MODULE Spec2Model ----
(***************************************************************************)
(* A model of src/main.js: the message_create handler of the WhatsApp bot  *)
(* (per-sender spam tracker, anti-link filter, command switch, greeting),  *)
(* the group_join and group_leave handlers and the bio timer, with the     *)
(* handlers' awaited transport calls as suspension points at which the     *)
(* passes of several events interleave.                                    *)
(*                                                                         *)
(* Strings are sequences of one-character strings, so that startsWith,     *)
(* slice, trim, split, toLowerCase, includes and the link regex are        *)
(* computed rather than assumed.                                           *)
(*                                                                         *)
(* Outside the model: logCommand (line 179), whose fs.appendFile is fire-  *)
(* and-forget and touches no state of the handler; what the runtime does   *)
(* with the rejected promise of a handler that threw; and eval (line 282)  *)
(* on text other than arithmetic: eval runs in the scope of the handler,   *)
(* so arbitrary text can rewrite prefix and spamTracker. The model gives   *)
(* calc arithmetic expressions only.                                       *)
(***************************************************************************)
EXTENDS Integers, Sequences, FiniteSets, TLC

\* ------------------------------------------------------------------------
\* Program constants (src/main.js:8-15)
\* ------------------------------------------------------------------------
DefaultPrefix == <<".">>

spamThreshold == 5

spamInterval == 10000

\* ------------------------------------------------------------------------
\* Bounds of the model
\* ------------------------------------------------------------------------
\* passes (handler invocations) that may be in flight or remembered at once
MaxPasses == 2

\* Spec: plain messages of one sender that open every behaviour, and the
\* messages received after them
WarmUp == spamThreshold - 1

MaxMsgs == 2

\* messages received in one behaviour of SpecKick
MaxKickMsgs == 2

\* messages received in one behaviour of SpecRate
MaxRateMsgs == 7

\* messages received in one behaviour of SpecParse / FairSpec
MaxParseMsgs == 1

MaxFairMsgs == 3

\* messages received in one behaviour of SpecBurst
MaxBurstMsgs == 11

\* events received after the opening messages in one behaviour of SpecFrame
MaxFrameMsgs == 2

\* messages received after the opening ones in one behaviour of SpecShared
MaxSharedMsgs == 4

\* length of the text after "setprefix" in the bodies of SpecParse
MaxTail == 3

\* ------------------------------------------------------------------------
\* JavaScript string functions on character sequences
\* ------------------------------------------------------------------------
IsSpace(c) == c \in {" ", "\t", "\n"}

\* String.prototype.startsWith
StartsWith(s, p) == Len(p) <= Len(s) /\ SubSeq(s, 1, Len(p)) = p

\* String.prototype.slice(n), 0 <= n
Slice(s, n) == SubSeq(s, n + 1, Len(s))

\* String.prototype.includes
Includes(s, sub) ==
    \E k \in 0..(Len(s) - Len(sub)) : SubSeq(s, k + 1, k + Len(sub)) = sub

LowerChar(c) ==
    CASE c = "H" -> "h"
      [] c = "I" -> "i"
      [] c = "P" -> "p"
      [] c = "T" -> "t"
      [] c = "S" -> "s"
      [] OTHER -> c

\* String.prototype.toLowerCase
ToLowerCase(s) == [k \in 1..Len(s) |-> LowerChar(s[k])]

\* String.prototype.trim: whitespace is dropped at both ends only
Trim(s) ==
    LET keep == {k \in 1..Len(s) : ~IsSpace(s[k])}
    IN  IF keep = {} THEN <<>>
        ELSE LET lo == CHOOSE k \in keep : \A j \in keep : k <= j
                 hi == CHOOSE k \in keep : \A j \in keep : k >= j
             IN  SubSeq(s, lo, hi)

\* String.prototype.split(/ +/): the separator is a maximal run of SPACES
\* (not of all whitespace); the empty string splits into [""], and a run at
\* either end leaves an empty token there.
RECURSIVE SplitSpaces(_)
SplitSpaces(s) ==
    LET sp == {k \in 1..Len(s) : s[k] = " "}
    IN  IF sp = {} THEN <<s>>
        ELSE LET k    == CHOOSE a \in sp : \A b \in sp : a <= b
                 rest == {j \in (k + 1)..Len(s) : s[j] # " "}
                 j    == IF rest = {} THEN Len(s) + 1
                         ELSE CHOOSE a \in rest : \A b \in rest : a <= b
             IN  <<SubSeq(s, 1, k - 1)>> \o SplitSpaces(SubSeq(s, j, Len(s)))

\* Array.prototype.join(' ')
RECURSIVE Join(_)
Join(args) ==
    IF args = <<>> THEN <<>>
    ELSE IF Len(args) = 1 THEN args[1]
    ELSE args[1] \o <<" ">> \o Join(Tail(args))

\* message.from.includes('@g.us')
IsGroup(from) == Includes(from, <<"@", "g", ".", "u", "s">>)

\* /(https?:\/\/[^\s]+)/gi .test(body): "http", an optional "s", "://" and at
\* least one non-whitespace character, in any letter case. The regex object
\* is created anew for every message, so its lastIndex is always 0.
linkRegexTest(body) ==
    LET low == ToLowerCase(body)
        At(k, lit) == k + Len(lit) <= Len(low) /\ SubSeq(low, k + 1, k + Len(lit)) = lit
        NonSpaceAt(k) == k <= Len(low) /\ ~IsSpace(low[k])
    IN  \E k \in 0..Len(low) :
            \/ At(k, <<"h","t","t","p",":","/","/">>) /\ NonSpaceAt(k + 8)
            \/ At(k, <<"h","t","t","p","s",":","/","/">>) /\ NonSpaceAt(k + 9)

\* eval(expression) of case 'calc', on expressions written with 1, + and
\* spaces only: it throws a SyntaxError on a trailing operator, on "++" and on
\* two numbers with only a space between them, and returns a number otherwise.
EvalThrows(expression) ==
    \/ expression = <<>>
    \/ expression[Len(expression)] # "1"
    \/ Includes(expression, <<"+", "+">>)
    \/ Includes(expression, <<"1", " ", "1">>)

\* ------------------------------------------------------------------------
\* Identities and messages
\* ------------------------------------------------------------------------
G1 == <<"1", "@", "g", ".", "u", "s">>

G2 == <<"2", "@", "g", ".", "u", "s">>

A == <<"a", "@", "c", ".", "u", "s">>

U == <<"u", "@", "c", ".", "u", "s">>

X == <<"x", "@", "c", ".", "u", "s">>

Y == <<"y", "@", "c", ".", "u", "s">>

\* an absent message.author (undefined)
NoAuthor == <<>>

Msg(from, author, body, mentionedIds) ==
    [from |-> from, author |-> author, body |-> body, mentionedIds |-> mentionedIds]

\* a key that is the chat the message was sent to
SenderOfOrigin(m) == m.from

\* const sender = message.author || message.from
SenderOf(m) == IF m.author # <<>> THEN m.author ELSE m.from

\* ------------------------------------------------------------------------
\* Outbound transport calls of a pass
\* ------------------------------------------------------------------------
\* One call on the transport: kind is Reply (message.reply), Delete
\* (message.delete(true)), SendToOrigin (client.sendMessage(message.from, ..,
\* {mentions})), GetChat (message.getChat) or RemoveParticipant
\* (chat.removeParticipants([id])); res is pending until the call settles.
Call(kind, text, to) == [kind |-> kind, text |-> text, to |-> to, res |-> "pending"]

Reply(text) == Call("Reply", text, <<>>)

\* ------------------------------------------------------------------------
\* State
\* ------------------------------------------------------------------------
VARIABLES
    prefix,       \* let prefix
    botStartTime, \* const botStartTime
    spamTracker,  \* const spamTracker = {}: sender -> {count, firstMsgTime}
    clock,        \* the last value Date.now() returned
    bio,          \* the profile status last set through client.setProfileStatus
    passes,       \* the invocations of the handlers (message_create, group_join,
                  \* group_leave)
    nmsgs,        \* number of events (message_create, group_join,
                  \* group_leave) so far
    recent        \* history: per sender, the (time, verdict) of its messages
                  \* of the last spamInterval milliseconds and of its
                  \* current window

vars == <<prefix, botStartTime, spamTracker, clock, bio, passes, nmsgs, recent>>

Passes == 1..MaxPasses

\* no call to client.setProfileStatus has succeeded yet
NoBio == [kind |-> "none", text |-> <<>>, at |-> 0]

\* spamTracker[sender] is undefined
NoWindow == [count |-> 0, firstMsgTime |-> 0]

\* A pass: pc is the await the handler is suspended at ("done": it returned,
\* "rejected": an exception left it); msg, sender, t (const now), command,
\* args and idx (the position in for .. of mentionedIds) are its locals; out
\* is the calls it has issued. The other fields record what it saw: its
\* place in the order of arrival, the sender's window before and after its
\* update, its verdict, the stage that took it, and the prefix and bio
\* before and after its synchronous part.
Idle ==
    [pc |-> "idle", msg |-> Msg(<<>>, <<>>, <<>>, <<>>), seq |-> 0, sender |-> <<>>,
     t |-> 0, prev |-> NoWindow, post |-> NoWindow, verdict |-> "none",
     pfx |-> <<>>, pfxOut |-> <<>>, bioIn |-> NoBio, bioOut |-> NoBio, stage |-> "none",
     command |-> <<>>, args |-> <<>>, idx |-> 0, out |-> <<>>, stalled |-> FALSE]

Terminal == {"done", "rejected"}

Init ==
    /\ prefix = DefaultPrefix
    /\ botStartTime = 0
    /\ spamTracker = <<>>
    /\ clock = 0
    /\ bio = NoBio
    /\ passes = [i \in Passes |-> Idle]
    /\ nmsgs = 0
    /\ recent = <<>>

\* ------------------------------------------------------------------------
\* Spam detection (src/main.js:124-135)
\* ------------------------------------------------------------------------
\* a window that also takes the message arriving exactly spamInterval after
\* its start
InWindowInclusive(diff) == diff <= spamInterval

\* diff < spamInterval
InWindow(diff) == diff < spamInterval

\* spamTracker[sender] = { count: 1, firstMsgTime: now }
FreshWindow(now) == [count |-> 1, firstMsgTime |-> now]

\* a window that restarts at every message it counts
UpdateWindowSliding(w, now) ==
    IF InWindow(now - w.firstMsgTime)
    THEN [count |-> w.count + 1, firstMsgTime |-> now]
    ELSE FreshWindow(now)

\* the window written for a sender that has one already
UpdateWindow(w, now) ==
    IF InWindow(now - w.firstMsgTime)
    THEN [w EXCEPT !.count = w.count + 1]
    ELSE FreshWindow(now)

\* lines 124-134: the tracker after a message of sender at time now
Track(tracker, sender, now) ==
    IF sender \notin DOMAIN tracker
    THEN (sender :> FreshWindow(now)) @@ tracker
    ELSE [tracker EXCEPT ![sender] = UpdateWindow(tracker[sender], now)]

\* a comparison that lets one message more through
IsSpamLoose(count) == count > spamThreshold + 1

\* a comparison that flags the threshold-th message already
IsSpamAtThreshold(count) == count >= spamThreshold

\* spamTracker[sender].count > spamThreshold
IsSpam(count) == count > spamThreshold

\* a verdict given once, to the message that crosses the threshold
VerdictOnce(count) == IF count = spamThreshold + 1 THEN "SpamDetected" ELSE "Allowed"

\* line 135: the verdict is taken from the count just written
Verdict(count) == IF IsSpam(count) THEN "SpamDetected" ELSE "Allowed"

\* ------------------------------------------------------------------------
\* The handler up to its first suspension (src/main.js:135-360)
\* ------------------------------------------------------------------------
\* What the synchronous part of one pass leaves behind: where the pass is
\* suspended (or "done"), the stage that took the message, the parsed
\* command, the calls issued so far, and the prefix and bio after it.
Step(pc, stage, command, args, out, pfx, b) ==
    [pc |-> pc, stage |-> stage, command |-> command, args |-> args,
     out |-> out, prefix |-> pfx, bio |-> b]

\* lines 135-151: the first call of the spam branch
SpamStage(m, pfx, b) ==
    IF IsGroup(m.from)
    THEN Step("spam_delete", "spam", <<>>, <<>>, <<Call("Delete", "", <<>>)>>, pfx, b)
    ELSE Step("spam_reply", "spam", <<>>, <<>>,
              <<Reply("You're sending messages too quickly. Please slow down.")>>, pfx, b)

\* line 155 and 157: the message is a link violation
IsLinkViolation(m, pfx) ==
    ~StartsWith(m.body, pfx) /\ IsGroup(m.from) /\ linkRegexTest(m.body)

\* lines 158-159: the first call of the anti-link branch
LinkStage(m, pfx, b) ==
    Step("link_delete", "link", <<>>, <<>>, <<Call("Delete", "", <<>>)>>, pfx, b)

\* a command test that reads another value of the prefix than the link
\* test did: the one the bot started with
IsCommandStale(m, pfx) == StartsWith(m.body, DefaultPrefix)

\* line 174
IsCommand(m, pfx) == StartsWith(m.body, pfx)

\* parsing without the trim
ParseArgsNoTrim(body, pfx) == SplitSpaces(Slice(body, Len(pfx)))

\* line 175: const args = message.body.slice(prefix.length).trim().split(/ +/)
ParseArgs(body, pfx) == SplitSpaces(Trim(Slice(body, Len(pfx))))

\* updateBio (lines 30-39): the bio is the argument, or the default text with
\* the time of day; client.setProfileStatus may throw, which is caught and
\* leaves the status as it was.
updateBio(b, newBio, now, statusOk) ==
    IF ~statusOk THEN b
    ELSE IF newBio # <<>> THEN [kind |-> "custom", text |-> newBio, at |-> 0]
    ELSE [kind |-> "auto", text |-> <<>>, at |-> (now \div 1000) % 86400]

\* the command names of the switch (lines 182-350)
c_ping == <<"p","i","n","g">>

c_help == <<"h","e","l","p">>

c_say == <<"s","a","y">>

c_roll == <<"r","o","l","l">>

c_uptime == <<"u","p","t","i","m","e">>

c_setbio == <<"s","e","t","b","i","o">>

c_setprefix == <<"s","e","t","p","r","e","f","i","x">>

c_status == <<"s","t","a","t","u","s">>

c_groupinfo == <<"g","r","o","u","p","i","n","f","o">>

c_calc == <<"c","a","l","c">>

c_weather == <<"w","e","a","t","h","e","r">>

c_quote == <<"q","u","o","t","e">>

c_fact == <<"f","a","c","t">>

c_kick == <<"k","i","c","k">>

\* a setprefix that confirms without assigning
SetPrefixNoAssign(command, args, pfx, b) ==
    IF Len(args) = 1
    THEN Step("reply", "command", command, args,
              <<Reply("Command prefix updated to:")>>, pfx, b)
    ELSE Step("reply", "command", command, args,
              <<Reply("Usage: .setprefix <newPrefix>")>>, pfx, b)

\* a setprefix that takes its first argument whatever follows it
SetPrefixFirstArg(command, args, pfx, b) ==
    IF Len(args) >= 1
    THEN Step("reply", "command", command, args,
              <<Reply("Command prefix updated to:")>>, args[1], b)
    ELSE Step("reply", "command", command, args,
              <<Reply("Usage: .setprefix <newPrefix>")>>, pfx, b)

\* case 'setprefix' (lines 237-246): the assignment precedes the awaited reply
SetPrefix(command, args, pfx, b) ==
    IF Len(args) = 1
    THEN Step("reply", "command", command, args,
              <<Reply("Command prefix updated to:")>>, args[1], b)
    ELSE Step("reply", "command", command, args,
              <<Reply("Usage: .setprefix <newPrefix>")>>, pfx, b)

\* case 'kick' (lines 328-338), up to its first await
Kick(m, command, args, pfx, b) ==
    IF ~IsGroup(m.from)
    THEN Step("reply", "command", command, args,
              <<Reply("This command can only be used in groups.")>>, pfx, b)
    ELSE IF Len(m.mentionedIds) = 0
    THEN Step("reply", "command", command, args,
              <<Reply("Please mention a user to kick.")>>, pfx, b)
    ELSE Step("kick_getChat", "command", command, args,
              <<Call("GetChat", "", <<>>)>>, pfx, b)

\* the switch (lines 181-352), up to the first await of each case
Dispatch(m, command, args, pfx, b, now, statusOk) ==
    LET R(text) == Step("reply", "command", command, args, <<Reply(text)>>, pfx, b)
    IN  CASE command = c_ping -> R("pong")
          [] command = c_help -> R("*Bot Commands:*")
          [] command = c_say ->
                IF Len(args) > 0 THEN R("say") 
                ELSE R("You didn't provide any message to echo!")
          [] command = c_roll -> R("You rolled:")
          [] command = c_uptime -> R("Bot has been running for:")
          [] command = c_setbio ->
                IF Join(args) # <<>>
                THEN Step("reply", "command", command, args, <<Reply("Bio updated to:")>>,
                          pfx, updateBio(b, Join(args), now, statusOk))
                ELSE Step("reply", "command", command, args,
                          <<Reply("Bio auto-updated with current time.")>>,
                          pfx, updateBio(b, <<>>, now, statusOk))
          [] command = c_setprefix -> SetPrefix(command, args, pfx, b)
          [] command = c_status -> R("*Bot Status:*")
          [] command = c_groupinfo ->
                IF ~IsGroup(m.from) THEN R("This command can only be used in groups.")
                ELSE Step("gi_getChat", "command", command, args,
                          <<Call("GetChat", "", <<>>)>>, pfx, b)
          [] command = c_calc ->
                IF Len(args) = 0 THEN R("Usage: .calc <expression>")
                ELSE IF EvalThrows(Join(args)) THEN R("Invalid expression.")
                ELSE Step("calc_reply", "command", command, args,
                          <<Reply("Result:")>>, pfx, b)
          [] command = c_weather ->
                IF Len(args) = 0 THEN R("Usage: .weather <city>")
                ELSE R("The current temperature in")
          [] command = c_quote -> R("quote")
          [] command = c_fact -> R("fact")
          [] command = c_kick -> Kick(m, command, args, pfx, b)
          [] OTHER -> R("Unknown command. Type .help for a list of commands.")

\* lines 174-181
CommandStage(m, pfx, b, now, statusOk) ==
    LET args0 == ParseArgs(m.body, pfx)
    IN  Dispatch(m, ToLowerCase(Head(args0)), Tail(args0), pfx, b, now, statusOk)

\* line 358
IsGreeting(body) ==
    LET lowerBody == ToLowerCase(body)
    IN  \/ Includes(lowerBody, <<"h","e","l","l","o">>)
        \/ Includes(lowerBody, <<"h","i">>)
        \/ Includes(lowerBody, <<"h","e","y">>)

\* lines 357-360
GreetingStage(m, pfx, b) ==
    IF IsGreeting(m.body)
    THEN Step("greet_reply", "greeting", <<>>, <<>>,
              <<Reply("Hello there! How can I help you today?")>>, pfx, b)
    ELSE Step("done", "none", <<>>, <<>>, <<>>, pfx, b)

\* lines 135-360: the stages in the order of the code, each one returning
Pipeline(m, verdict, pfx, b, now, statusOk) ==
    IF verdict = "SpamDetected" THEN SpamStage(m, pfx, b)
    ELSE IF IsLinkViolation(m, pfx) THEN LinkStage(m, pfx, b)
    ELSE IF IsCommand(m, pfx) THEN CommandStage(m, pfx, b, now, statusOk)
    ELSE GreetingStage(m, pfx, b)

\* ------------------------------------------------------------------------
\* The handler after each await
\* ------------------------------------------------------------------------
Settled(out, ok) == [out EXCEPT ![Len(out)].res = IF ok THEN "ok" ELSE "err"]

Goto(p, pc) == [p EXCEPT !.pc = pc]

Await(p, pc, call) == [p EXCEPT !.pc = pc, !.out = Append(@, call)]

\* a switch without the return of line 353: the handler goes on to the greeting
AfterSwitchFallThrough(p) ==
    IF IsGreeting(p.msg.body)
    THEN Await(p, "greet_reply", Reply("Hello there! How can I help you today?"))
    ELSE Goto(p, "done")

\* line 353: return after the switch
AfterSwitch(p) == Goto(p, "done")

\* a spam branch that sends its warning whether or not the delete succeeded
AfterSpamDeleteAlways(p, ok) ==
    Await(p, "spam_send", Call("SendToOrigin", "Please stop spamming!", <<p.sender>>))

\* lines 138-149: await message.delete(true); await client.sendMessage(..)
\* inside one try, whose catch only logs; line 150 returns.
AfterSpamDelete(p, ok) ==
    IF ok THEN Await(p, "spam_send",
                     Call("SendToOrigin", "Please stop spamming!", <<p.sender>>))
    ELSE Goto(p, "done")

\* an anti-link branch that sends its notice whether or not the delete succeeded
AfterLinkDeleteAlways(p, ok) ==
    Await(p, "link_send",
          Call("SendToOrigin", "Links are not allowed in this group!", <<p.sender>>))

\* lines 159-169, the same shape in the anti-link branch
AfterLinkDelete(p, ok) ==
    IF ok THEN Await(p, "link_send",
                     Call("SendToOrigin", "Links are not allowed in this group!",
                          <<p.sender>>))
    ELSE Goto(p, "done")

\* an awaited call in a try whose catch only logs, followed by return
AfterCaught(p, ok) == Goto(p, "done")

\* a reply that is sent once more when it fails
AfterReplyRetry(p, ok) ==
    IF ok THEN Goto(p, "done")
    ELSE IF Len(p.out) >= 2 THEN Goto(p, "rejected")
    ELSE Await(p, "reply", Reply(p.out[Len(p.out)].text))

\* an awaited message.reply outside any try, last in its case of the switch
AfterReply(p, ok) == IF ok THEN AfterSwitch(p) ELSE Goto(p, "rejected")

\* line 359: the greeting reply, outside any try, last in the handler
AfterGreeting(p, ok) == IF ok THEN Goto(p, "done") ELSE Goto(p, "rejected")

\* lines 265-270: const chat = await message.getChat(); await message.reply(info)
AfterGroupInfoChat(p, ok) ==
    IF ok THEN Await(p, "reply", Reply("*Group Info:*")) ELSE Goto(p, "rejected")

\* lines 280-286: the Result reply is inside the try, the Invalid reply in the catch
AfterCalcReply(p, ok) ==
    IF ok THEN AfterSwitch(p) ELSE Await(p, "reply", Reply("Invalid expression."))

\* line 339: the next iteration of for (const id of message.mentionedIds)
KickLoop(p) ==
    IF p.idx < Len(p.msg.mentionedIds)
    THEN [p EXCEPT !.idx = p.idx + 1, !.pc = "kick_remove",
                   !.out = Append(@, Call("RemoveParticipant", "",
                                          <<p.msg.mentionedIds[p.idx + 1]>>))]
    ELSE AfterSwitch(p)

\* line 338: const chat = await message.getChat()
AfterKickChat(p, ok) == IF ok THEN KickLoop(p) ELSE Goto(p, "rejected")

\* line 345, in the catch of the loop body
KickFailed(p) ==
    Await(p, "kick_reply_fail", Call("Reply", "Failed to kick", <<p.msg.mentionedIds[p.idx]>>))

\* lines 341-342: await chat.removeParticipants([id])
AfterRemove(p, ok) ==
    IF ok
    THEN Await(p, "kick_reply_ok",
               Call("Reply", "has been kicked from the group.", <<p.msg.mentionedIds[p.idx]>>))
    ELSE KickFailed(p)

\* line 342: the success reply is inside the try
AfterKickedReply(p, ok) == IF ok THEN KickLoop(p) ELSE KickFailed(p)

\* line 345: the failure reply is inside the catch, so its failure leaves the handler
AfterFailedReply(p, ok) == IF ok THEN KickLoop(p) ELSE Goto(p, "rejected")

\* group_join / group_leave, lines 94-96 and 106-108: const chat = await
\* notification.getChat(); await chat.sendMessage(.., {mentions}), both
\* inside the try of the handler
AfterNoteChat(p, ok) ==
    IF ok THEN Await(p, "note_send",
                     Call("SendToOrigin",
                          IF p.stage = "join" THEN "Welcome" ELSE "Goodbye", <<p.sender>>))
    ELSE Goto(p, "done")

\* the continuation of a suspended pass whose awaited call has settled
Resume(p0, ok) ==
    LET p == [p0 EXCEPT !.out = Settled(p0.out, ok)]
    IN  CASE p.pc = "spam_delete" -> AfterSpamDelete(p, ok)
          [] p.pc = "spam_send" -> AfterCaught(p, ok)
          [] p.pc = "spam_reply" -> AfterCaught(p, ok)
          [] p.pc = "link_delete" -> AfterLinkDelete(p, ok)
          [] p.pc = "link_send" -> AfterCaught(p, ok)
          [] p.pc = "reply" -> AfterReply(p, ok)
          [] p.pc = "greet_reply" -> AfterGreeting(p, ok)
          [] p.pc = "gi_getChat" -> AfterGroupInfoChat(p, ok)
          [] p.pc = "calc_reply" -> AfterCalcReply(p, ok)
          [] p.pc = "kick_getChat" -> AfterKickChat(p, ok)
          [] p.pc = "kick_remove" -> AfterRemove(p, ok)
          [] p.pc = "kick_reply_ok" -> AfterKickedReply(p, ok)
          [] p.pc = "kick_reply_fail" -> AfterFailedReply(p, ok)
          [] p.pc = "note_getChat" -> AfterNoteChat(p, ok)
          [] p.pc = "note_send" -> AfterCaught(p, ok)

\* ------------------------------------------------------------------------
\* Actions
\* ------------------------------------------------------------------------
Free(p) == p.pc \in {"idle"} \cup Terminal

Suspended(p) == ~Free(p)

\* the record of a finished pass is kept until its place is needed; a new
\* pass takes the place of the oldest finished one
Oldest(i) ==
    /\ Free(passes[i])
    /\ \A j \in Passes : Free(passes[j]) =>
          \/ passes[i].seq < passes[j].seq
          \/ passes[i].seq = passes[j].seq /\ i <= j

\* the history with one more entry: of every sender, the messages of the
\* last spamInterval milliseconds and those that arrived since the start of
\* its window
Remember(rec, tracker, sender, now, verdict) ==
    LET kept(s, q) == SelectSeq(q, LAMBDA e : \/ now - e.t <= spamInterval
                                             \/ e.t >= tracker[s].firstMsgTime)
        old == [s \in DOMAIN rec |-> kept(s, rec[s])]
        mine == IF sender \in DOMAIN rec THEN old[sender] ELSE <<>>
    IN  (sender :> Append(mine, [t |-> now, verdict |-> verdict])) @@ old

\* a handler that waits for its calls synchronously: no continuation runs
\* while another pass's call hangs
CanResumeBlocking(ps, i) == \A j \in DOMAIN ps : j # i => ~ps[j].stalled

\* the continuation of a suspended handler runs when its awaited call
\* settles, whatever the other passes are waiting for
CanResume(ps, i) == TRUE

\* message_create (lines 118-361) from the event to the first await: the
\* clock is read, the sender's window is updated, and the first stage that
\* takes the message issues its first call.
Receive(i, m, d, statusOk) ==
    LET now == clock + d
        sender == SenderOf(m)
        tracker == Track(spamTracker, sender, now)
        verdict == Verdict(tracker[sender].count)
        st == Pipeline(m, verdict, prefix, bio, now, statusOk)
    IN  /\ Oldest(i)
        /\ clock' = now
        /\ spamTracker' = tracker
        /\ prefix' = st.prefix
        /\ bio' = st.bio
        /\ nmsgs' = nmsgs + 1
        /\ UNCHANGED botStartTime
        /\ recent' = Remember(recent, tracker, sender, now, verdict)
        /\ passes' = [passes EXCEPT ![i] =
              [pc |-> st.pc, msg |-> m, seq |-> nmsgs + 1, sender |-> sender, t |-> now,
               prev |-> IF sender \in DOMAIN spamTracker THEN spamTracker[sender]
                        ELSE NoWindow,
               post |-> tracker[sender],
               verdict |-> verdict, pfx |-> prefix, pfxOut |-> st.prefix,
               bioIn |-> bio, bioOut |-> st.bio, stage |-> st.stage, command |-> st.command,
               args |-> st.args, idx |-> 0, out |-> st.out, stalled |-> FALSE]]

\* a handler that writes the sender's window after its await, from the
\* count it read before it
SettleWriteBack(i, ok) ==
    /\ Suspended(passes[i])
    /\ ~passes[i].stalled
    /\ CanResume(passes, i)
    /\ passes' = [passes EXCEPT ![i] = Resume(passes[i], ok)]
    /\ spamTracker' = [spamTracker EXCEPT ![passes[i].sender] = passes[i].post]
    /\ UNCHANGED <<prefix, botStartTime, clock, bio, nmsgs, recent>>

\* the awaited call of pass i returns (ok) or rejects, and the handler runs
\* to its next await or to its end
Settle(i, ok) ==
    /\ Suspended(passes[i])
    /\ ~passes[i].stalled
    /\ CanResume(passes, i)
    /\ passes' = [passes EXCEPT ![i] = Resume(passes[i], ok)]
    /\ UNCHANGED <<prefix, botStartTime, spamTracker, clock, bio, nmsgs, recent>>

\* group_join and group_leave (lines 92-113) from the event to the first
\* await: the handler of a notification is an invocation like that of a
\* message; it reads no clock and writes no variable of the program.
Notify(i, kind, g, participant) ==
    /\ Oldest(i)
    /\ passes' = [passes EXCEPT ![i] =
          [Idle EXCEPT !.pc = "note_getChat", !.msg = Msg(g, participant, <<>>, <<>>),
                       !.seq = nmsgs + 1, !.sender = participant, !.stage = kind,
                       !.out = <<Call("GetChat", "", <<>>)>>]]
    /\ nmsgs' = nmsgs + 1
    /\ UNCHANGED <<prefix, botStartTime, spamTracker, clock, bio, recent>>

\* the timer of line 84: updateBio() with no argument. The time of day it
\* writes is taken from the clock as last read.
Refresh(statusOk) ==
    /\ bio' = updateBio(bio, <<>>, clock, statusOk)
    /\ UNCHANGED <<prefix, botStartTime, spamTracker, clock, passes, nmsgs, recent>>

\* the awaited call of pass i never settles
Stall(i) ==
    /\ Suspended(passes[i])
    /\ ~passes[i].stalled
    /\ passes' = [passes EXCEPT ![i].stalled = TRUE]
    /\ UNCHANGED <<prefix, botStartTime, spamTracker, clock, bio, nmsgs, recent>>

\* ------------------------------------------------------------------------
\* Inputs
\* ------------------------------------------------------------------------
b_ok == <<"o","k">>

b_hi == <<"H","i">>

b_ping == <<".","p","i","n","g">>

b_Ping == <<".","P","i","n","g">>

b_bang_ping == <<"!","p","i","n","g">>

b_setprefix_bang == <<".","s","e","t","p","r","e","f","i","x"," ","!">>

b_setprefix == <<".","s","e","t","p","r","e","f","i","x">>

b_unknown_hi == <<".","h","i">>

b_link == <<"s","e","e"," ","H","t","t","p",":","/","/","x">>

b_say_link == <<".","s","a","y"," ","h","t","t","p","s",":","/","/","x">>

b_kick == <<".","k","i","c","k">>

b_calc == <<".","c","a","l","c"," ","1","+","1">>

b_setbio == <<".","s","e","t","b","i","o">>

b_groupinfo == <<".","g","r","o","u","p","i","n","f","o">>

b_setprefix_two == <<".","s","e","t","p","r","e","f","i","x"," ","!"," ","!">>

b_SetPrefix == <<".","S","e","T","P","r","e","f","I","x"," "," ","!">>

\* where a message comes from: a group with an author, or a direct chat
Origins == {<<G1, A>>, <<U, NoAuthor>>}

Bodies == {b_setbio, b_hi, b_ping, b_bang_ping, b_setprefix_bang, b_unknown_hi, b_link, b_say_link}

\* Spec: after WarmUp plain messages of A in the group within one
\* millisecond, any messages of Msgs
WarmMsgs == {Msg(G1, A, b_ok, <<>>)}

Msgs == {Msg(o[1], o[2], b, <<>>) : o \in Origins, b \in Bodies}

\* the clock advances between two messages by nothing or by a whole window
Ticks == {0, spamInterval}

\* SpecKick: kick commands with zero, one and two mentioned ids
KickMsgs ==
    {Msg(o[1], o[2], b_kick, ids) : o \in Origins, ids \in {<<>>, <<X>>, <<X, Y>>}}

\* ------------------------------------------------------------------------
\* Specifications
\* ------------------------------------------------------------------------
Deliver(M, T, max) ==
    /\ nmsgs < max
    /\ \E i \in Passes, m \in M, d \in T, statusOk \in BOOLEAN :
          /\ statusOk \/ StartsWith(m.body, prefix \o c_setbio)
          /\ Receive(i, m, d, statusOk)

Return == \E i \in Passes, ok \in BOOLEAN : Settle(i, ok)

\* A call that never settles. Without fairness a suspended pass may stay
\* suspended for ever, so only FairSpec, which obliges every other call to
\* settle, needs this step.
Hang == \E i \in Passes : Stall(i)

Next ==
    \/ Deliver(IF nmsgs < WarmUp THEN WarmMsgs ELSE Msgs,
               IF nmsgs < WarmUp THEN {0} ELSE Ticks, WarmUp + MaxMsgs)
    \/ Return

Spec == Init /\ [][Next]_vars

NextKick == Deliver(KickMsgs, {0}, MaxKickMsgs) \/ Return

SpecKick == Init /\ [][NextKick]_vars

\* SpecRate: plain messages of one author in two groups and of one direct
\* chat, arriving in the same millisecond, one millisecond before a window
\* ends, or a whole window later
RateMsgs == {Msg(G1, A, b_ok, <<>>), Msg(U, NoAuthor, b_ok, <<>>)}

RateTicks == {0, spamInterval - 1, spamInterval}

NextRate == Deliver(RateMsgs, RateTicks, MaxRateMsgs) \/ Return

SpecRate == Init /\ [][NextRate]_vars

\* SpecParse: setprefix commands under the current or the default prefix,
\* with or without a space before the command name, followed by every text
\* of at most MaxTail spaces, tabs and exclamation marks
SeqsUpTo(S, n) == UNION {[1..k -> S] : k \in 0..n}

ParseBodies(pfx) ==
    {pfx \o lead \o c_setprefix \o tail :
        lead \in {<<>>, <<" ">>}, tail \in SeqsUpTo({" ", "\t", "!"}, MaxTail)}

ParseMsgs == {Msg(U, NoAuthor, b, <<>>) : b \in ParseBodies(prefix) \cup ParseBodies(DefaultPrefix)}

NextParse == Deliver(ParseMsgs, {0}, MaxParseMsgs) \/ Return

SpecParse == Init /\ [][NextParse]_vars

\* SpecShared: after WarmUp plain messages of A in group 1, plain messages of
\* A in either group and in its direct chat (where message.from is A and
\* there is no author) and of U, in the same millisecond or a window later
SharedMsgs ==
    {Msg(G1, A, b_ok, <<>>), Msg(G2, A, b_ok, <<>>), Msg(A, NoAuthor, b_ok, <<>>),
     Msg(U, NoAuthor, b_ok, <<>>)}

NextShared ==
    \/ Deliver(IF nmsgs < WarmUp THEN WarmMsgs ELSE SharedMsgs,
               IF nmsgs < WarmUp THEN {0} ELSE Ticks, WarmUp + MaxSharedMsgs)
    \/ Return

SpecShared == Init /\ [][NextShared]_vars

\* SpecFrame: after WarmUp plain messages of A in group 1, setprefix with
\* no, one (in capitals) and two arguments, setbio, a link and a greeting,
\* all in one millisecond; after the opening messages, participants
\* joining and leaving the group; the bio timer
FrameBodies ==
    {b_setprefix, b_setprefix_two, b_SetPrefix, b_setbio, b_link, b_hi}

FrameMsgs == {Msg(o[1], o[2], b, <<>>) : o \in Origins, b \in FrameBodies}

Membership ==
    /\ nmsgs >= WarmUp
    /\ nmsgs < WarmUp + MaxFrameMsgs
    /\ \E i \in Passes, kind \in {"join", "leave"} : Notify(i, kind, G1, X)

Timer == \E statusOk \in BOOLEAN : Refresh(statusOk)

NextFrame ==
    \/ Deliver(IF nmsgs < WarmUp THEN WarmMsgs ELSE FrameMsgs, {0}, WarmUp + MaxFrameMsgs)
    \/ Return
    \/ Membership
    \/ Timer

SpecFrame == Init /\ [][NextFrame]_vars

\* SpecBurst: plain messages of one direct chat, each in the same
\* millisecond as the one before or a whole window later
BurstMsgs == {Msg(U, NoAuthor, b_ok, <<>>)}

NextBurst == Deliver(BurstMsgs, Ticks, MaxBurstMsgs) \/ Return

SpecBurst == Init /\ [][NextBurst]_vars

\* FairSpec: a link in the group, a greeting and a ping; a call that does
\* not hang settles, and the event loop then runs the continuation of its pass
FairMsgs == {Msg(G1, A, b_link, <<>>), Msg(U, NoAuthor, b_hi, <<>>), Msg(U, NoAuthor, b_ping, <<>>)}

NextFair == Deliver(FairMsgs, {0}, MaxFairMsgs) \/ Return \/ Hang

FairSpec ==
    /\ Init
    /\ [][NextFair]_vars
    /\ \A i \in Passes : WF_vars(\E ok \in BOOLEAN : Settle(i, ok))

\* ------------------------------------------------------------------------
\* Claims
\* ------------------------------------------------------------------------
\* the messages of sender s in its current window, oldest first, while that
\* window is still open
CurrentWindow(s) ==
    SelectSeq(recent[s], LAMBDA e : e.t >= spamTracker[s].firstMsgTime)

WindowOpen(s) == clock - spamTracker[s].firstMsgTime < spamInterval

\* C1: for every sender, as long as its messages arrive less than
\* spamInterval after the start of its current window, the 1st to the 5th
\* message of that window are Allowed and the 6th is SpamDetected.
C1_Threshold ==
    \A s \in DOMAIN spamTracker :
        WindowOpen(s) =>
            /\ Len(CurrentWindow(s)) >= 1
            /\ \A k \in 1..Len(CurrentWindow(s)) :
                  /\ k <= spamThreshold => CurrentWindow(s)[k].verdict = "Allowed"
                  /\ k = spamThreshold + 1 => CurrentWindow(s)[k].verdict = "SpamDetected"

C1_Witness ==
    \E s \in DOMAIN spamTracker :
        /\ WindowOpen(s)
        /\ Len(CurrentWindow(s)) = spamThreshold + 1
        /\ CurrentWindow(s)[spamThreshold].verdict = "Allowed"
        /\ CurrentWindow(s)[spamThreshold + 1].verdict = "SpamDetected"
        /\ CurrentWindow(s)[spamThreshold + 1].t = spamTracker[s].firstMsgTime + spamInterval - 1

\* C2: a message of a sender that has a window, arriving spamInterval or
\* more after that window's start, leaves the window with count 1 and
\* start = its arrival time, and is Allowed, whatever the count was.
C2_Reset ==
    \A i \in Passes :
        LET p == passes[i]
        IN  (p.pc # "idle" /\ p.prev # NoWindow /\ p.t - p.prev.firstMsgTime >= spamInterval)
            => /\ p.post = [count |-> 1, firstMsgTime |-> p.t]
               /\ p.verdict = "Allowed"

C2_Witness ==
    \E i \in Passes :
        LET p == passes[i]
        IN  /\ p.pc # "idle"
            /\ p.prev.count > spamThreshold
            /\ p.t - p.prev.firstMsgTime = spamInterval
            /\ p.post.count = 1
            /\ p.verdict = "Allowed"

\* ---- stages of a pass, read off the calls it issued ----
Calls(p, P(_)) == {k \in 1..Len(p.out) : P(p.out[k])}

SpamTexts == {"Please stop spamming!", "You're sending messages too quickly. Please slow down."}

LinkTexts == {"Links are not allowed in this group!"}

GreetingTexts == {"Hello there! How can I help you today?"}

HasSpamAction(p) == Calls(p, LAMBDA c : c.text \in SpamTexts) # {}

HasLinkWarning(p) == Calls(p, LAMBDA c : c.text \in LinkTexts) # {}

HasGreeting(p) == Calls(p, LAMBDA c : c.text \in GreetingTexts) # {}

HasDelete(p) == Calls(p, LAMBDA c : c.kind = "Delete") # {}

\* a call only the command switch makes
HasCommandAction(p) ==
    Calls(p, LAMBDA c : \/ c.kind \in {"GetChat", "RemoveParticipant"}
                        \/ c.kind = "Reply" /\ c.text \notin SpamTexts \cup GreetingTexts) # {}

NoMutation(p) == p.pfxOut = p.pfx /\ p.bioOut = p.bioIn

\* C3: spam > link violation > command > greeting, each message taken by at
\* most one stage: a SpamDetected message gets no link warning, no command
\* dispatch (no prefix or bio change, no removal request) and no greeting; a
\* link violation gets no command dispatch and no greeting; a command never
\* gets the greeting.
C3_ShortCircuit ==
    \A i \in Passes :
        LET p == passes[i]
            claimed == {x \in {"spam", "link", "command", "greeting"} :
                          \/ x = "spam" /\ HasSpamAction(p)
                          \/ x = "link" /\ HasLinkWarning(p)
                          \/ x = "command" /\ HasCommandAction(p)
                          \/ x = "greeting" /\ HasGreeting(p)}
        IN  p.pc # "idle" =>
            /\ Cardinality(claimed) <= 1
            /\ p.verdict = "SpamDetected" =>
                  claimed \subseteq {"spam"} /\ NoMutation(p)
            /\ (p.verdict = "Allowed" /\ IsLinkViolation(p.msg, p.pfx)) =>
                  claimed \subseteq {"link"} /\ NoMutation(p)
            /\ (p.verdict = "Allowed" /\ IsCommand(p.msg, p.pfx)) =>
                  claimed = {"command"} /\ ~HasDelete(p)
            /\ (p.verdict = "Allowed" /\ ~IsLinkViolation(p.msg, p.pfx)
                  /\ ~IsCommand(p.msg, p.pfx)) =>
                  claimed \subseteq {"greeting"} /\ ~HasDelete(p) /\ NoMutation(p)

\* a finished spam pass of a command that changes the prefix, and a
\* finished pass of a command whose text contains "hi"
C3_Witness ==
    \E i, j \in Passes :
        /\ passes[i].pc = "done" /\ passes[i].verdict = "SpamDetected"
        /\ passes[i].msg.body = b_setprefix_bang /\ passes[i].pfx = DefaultPrefix
        /\ passes[j].pc = "done" /\ passes[j].verdict = "Allowed"
        /\ passes[j].msg.body = b_unknown_hi /\ passes[j].stage = "command"

\* ---- C4 ----
Deletes(p) == Calls(p, LAMBDA c : c.kind = "Delete")

Sends(p) == Calls(p, LAMBDA c : c.kind = "SendToOrigin")

NoticesTo(p) == Calls(p, LAMBDA c : c.kind = "SendToOrigin" /\ c.to = <<p.sender>>)

LinkBody(p) == ~StartsWith(p.msg.body, p.pfx) /\ linkRegexTest(p.msg.body)

\* C4 as claimed: a finished pass of a group message that does not start
\* with the prefix and contains a URL has issued one delete and exactly one
\* notice mentioning the sender; from a non-group origin, neither.
C4_Original ==
    \A i \in Passes :
        LET p == passes[i]
        IN  (p.pc \in Terminal /\ LinkBody(p)) =>
            IF IsGroup(p.msg.from)
            THEN Cardinality(Deletes(p)) = 1 /\ Cardinality(NoticesTo(p)) = 1
            ELSE Deletes(p) = {} /\ Sends(p) = {}

\* C4: such a group message gets exactly one delete request, issued first,
\* and one notice mentioning the sender exactly when that delete succeeded
\* (none when it failed); from a non-group origin, neither.
C4_LinkModeration ==
    \A i \in Passes :
        LET p == passes[i]
        IN  (p.pc # "idle" /\ LinkBody(p)) =>
            IF IsGroup(p.msg.from)
            THEN /\ Deletes(p) = {1}
                 /\ Sends(p) = NoticesTo(p)
                 /\ Cardinality(Sends(p)) = (IF p.out[1].res = "ok" THEN 1 ELSE 0)
                 /\ p.pc \in Terminal => p.out[1].res # "pending"
            ELSE Deletes(p) = {} /\ Sends(p) = {}

C4_Witness ==
    \E i, j \in Passes :
        /\ passes[i].pc = "done" /\ passes[i].stage = "link"
        /\ passes[i].msg.body = b_link /\ IsGroup(passes[i].msg.from)
        /\ Len(passes[i].out) = 2 /\ passes[i].out[1].res = "ok"
        /\ passes[i].out[2].text \in LinkTexts
        /\ passes[j].pc = "done" /\ passes[j].msg.body = b_link
        /\ ~IsGroup(passes[j].msg.from) /\ passes[j].out = <<>>

\* C5: whatever calls fail, no failure leaves the handler: no pass ends rejected.
C5_Containment == \A i \in Passes : passes[i].pc # "rejected"

\* ---- C6 ----
\* pass j ran setprefix with exactly one argument, and pass i is the next message
SetThenNext(j, i) ==
    /\ passes[j].stage = "command" /\ passes[j].command = c_setprefix
    /\ Len(passes[j].args) = 1
    /\ passes[i].pc # "idle" /\ passes[i].seq = passes[j].seq + 1

PongOnly(p) == Len(p.out) = 1 /\ p.out[1].kind = "Reply" /\ p.out[1].text = "pong"

\* C6 as claimed: the message after setprefix p is dispatched to the command
\* switch exactly if its body starts with p; after ".setprefix !", "!ping"
\* is answered with pong.
C6_Original ==
    \A i, j \in Passes :
        SetThenNext(j, i) =>
            /\ passes[i].stage = "command" <=> StartsWith(passes[i].msg.body, passes[j].args[1])
            /\ (passes[j].pfx = DefaultPrefix /\ passes[j].args[1] = <<"!">>
                  /\ passes[i].msg.body = b_bang_ping) => PongOnly(passes[i])

\* C6: the same, for a following message that the rate limiter allows.
C6_PrefixChange ==
    /\ \A i \in Passes :
          (passes[i].pc # "idle" /\ passes[i].verdict = "Allowed") =>
              (passes[i].stage = "command" <=> StartsWith(passes[i].msg.body, passes[i].pfx))
    /\ \A i, j \in Passes :
        (SetThenNext(j, i) /\ passes[i].verdict = "Allowed") =>
            /\ passes[i].pfx = passes[j].args[1]
            /\ passes[i].stage = "command" <=> StartsWith(passes[i].msg.body, passes[j].args[1])
            /\ (passes[j].pfx = DefaultPrefix /\ passes[j].args[1] = <<"!">>
                  /\ passes[i].msg.body = b_bang_ping) => PongOnly(passes[i])
            /\ (passes[j].pfx = DefaultPrefix /\ passes[j].args[1] = <<"!">>
                  /\ passes[i].msg.body = b_ping) => ~HasCommandAction(passes[i])

C6_Witness ==
    \E i, j \in Passes :
        /\ SetThenNext(j, i)
        /\ passes[j].pfx = DefaultPrefix /\ passes[j].args[1] = <<"!">>
        /\ passes[i].msg.body = b_bang_ping /\ passes[i].pc = "done"
        /\ PongOnly(passes[i]) /\ passes[i].out[1].res = "ok"

\* ---- C7 ----
Removals(p) == Calls(p, LAMBDA c : c.kind = "RemoveParticipant")

\* C7: a finished kick command has issued as many removal requests as it
\* mentions ids when it comes from a group, and none otherwise; with no
\* mentioned id in a group its only call is the request-mention reply.
C7_KickRequests ==
    \A i \in Passes :
        LET p == passes[i]
        IN  (p.pc \in Terminal /\ p.msg.body = b_kick /\ p.pfx = DefaultPrefix) =>
            /\ Cardinality(Removals(p)) =
                  (IF IsGroup(p.msg.from) THEN Len(p.msg.mentionedIds) ELSE 0)
            /\ (IsGroup(p.msg.from) /\ p.msg.mentionedIds = <<>>) =>
                  /\ Len(p.out) = 1
                  /\ p.out[1].text = "Please mention a user to kick."

\* ---- C8 ----
\* C8 as claimed: ".ping" received under the prefix "." gets the one call
\* Reply("pong").
C8_Original ==
    \A i \in Passes :
        LET p == passes[i]
        IN  (p.pc # "idle" /\ p.msg.body = b_ping /\ p.pfx = DefaultPrefix) => PongOnly(p)

\* C8: ".ping" received under the prefix "." from a sender the rate limiter
\* allows gets the one call Reply("pong"): no delete, no send-to-origin, no
\* removal request, no second reply.
C8_Ping ==
    \A i \in Passes :
        LET p == passes[i]
        IN  (p.pc # "idle" /\ p.msg.body = b_ping /\ p.pfx = DefaultPrefix
               /\ p.verdict = "Allowed") => PongOnly(p)

C8_Witness ==
    \E i \in Passes :
        LET p == passes[i]
        IN  /\ p.pc = "done" /\ p.msg.body = b_ping /\ p.pfx = DefaultPrefix
            /\ p.verdict = "Allowed" /\ PongOnly(p) /\ p.out[1].res = "ok"

C11_Persists ==
    /\ \A s \in DOMAIN spamTracker :
          \A k \in 1..Len(CurrentWindow(s)) :
              k > spamThreshold => CurrentWindow(s)[k].verdict = "SpamDetected"
    /\ \A i \in Passes :
          LET p == passes[i]
          IN  (p.pc # "idle" /\ p.prev.count > spamThreshold) =>
                IF p.t - p.prev.firstMsgTime < spamInterval
                THEN /\ p.verdict = "SpamDetected"
                     /\ p.post = [p.prev EXCEPT !.count = p.prev.count + 1]
                ELSE p.verdict = "Allowed"

\* the 6th and the 7th message of one window, the 7th at its last millisecond
C11_Witness ==
    \E s \in DOMAIN spamTracker :
        /\ spamTracker[s].count = spamThreshold + 2
        /\ Len(CurrentWindow(s)) = spamThreshold + 2
        /\ CurrentWindow(s)[spamThreshold + 1].verdict = "SpamDetected"
        /\ CurrentWindow(s)[spamThreshold + 2].verdict = "SpamDetected"
        /\ CurrentWindow(s)[spamThreshold + 2].t = spamTracker[s].firstMsgTime + spamInterval - 1

\* ---- C12 ----
\* the messages of sender s, by their place in its history, that arrived in
\* [firstMsgTime, firstMsgTime + spamInterval) of its window
InWindowOf(s) ==
    {k \in 1..Len(recent[s]) :
        /\ recent[s][k].t >= spamTracker[s].firstMsgTime
        /\ recent[s][k].t < spamTracker[s].firstMsgTime + spamInterval}

\* C12: in every state, every sender with a window has count >= 1, and its
\* count is the number of its messages that arrived in [firstMsgTime,
\* firstMsgTime + spamInterval) since the window was created or reset; the
\* window was created or reset by a message arriving at firstMsgTime, and no
\* message since then lies outside that interval.
C12_CountInvariant ==
    /\ DOMAIN recent = DOMAIN spamTracker
    /\ \A s \in DOMAIN spamTracker :
          /\ spamTracker[s].count >= 1
          /\ spamTracker[s].count = Cardinality(InWindowOf(s))
          /\ \E k \in InWindowOf(s) : recent[s][k].t = spamTracker[s].firstMsgTime
          /\ \A k \in 1..Len(recent[s]) :
                recent[s][k].t >= spamTracker[s].firstMsgTime => k \in InWindowOf(s)

\* one sender's window has expired with three messages counted while the
\* clock moved on with another sender, whose window has been reset
C12_Witness ==
    \E s, u \in DOMAIN spamTracker :
        /\ s # u
        /\ spamTracker[s].count = 3
        /\ clock - spamTracker[s].firstMsgTime > spamInterval
        /\ recent[s][Len(recent[s])].t = spamTracker[s].firstMsgTime + spamInterval - 1
        /\ spamTracker[u].count = 2
        /\ Len(recent[u]) > 2

\* ---- C13 ----
\* C13: the update of a sender's window by one message is never interleaved
\* with that of another: after n messages of a sender inside one window its
\* count is n, whatever passes were suspended or resumed in between; a
\* message finds the window exactly as the sender's previous message left
\* it, and no continuation of a pass writes the tracker.
C13_NoRace ==
    /\ \A s \in DOMAIN spamTracker : spamTracker[s].count = Len(CurrentWindow(s))
    /\ \A i, j \in Passes :
          (/\ passes[i].pc # "idle" /\ passes[j].pc # "idle"
           /\ passes[i].sender = passes[j].sender
           /\ passes[j].seq = passes[i].seq + 1)
          => passes[j].prev = passes[i].post
    /\ \A i \in Passes :
          (passes[i].pc # "idle" /\ passes[i].seq = nmsgs)
          => spamTracker[passes[i].sender] = passes[i].post

\* two passes of one sender are in flight at once, the second received
\* while the first was suspended, and both messages are counted
C13_Witness ==
    \E i, j \in Passes :
        /\ Suspended(passes[i]) /\ Suspended(passes[j])
        /\ passes[i].sender = passes[j].sender
        /\ passes[j].seq = passes[i].seq + 1
        /\ passes[j].t = passes[i].t
        /\ passes[j].post.count = passes[i].post.count + 1
        /\ spamTracker[passes[j].sender].count = Len(CurrentWindow(passes[j].sender))
        /\ spamTracker[passes[j].sender].count = spamThreshold + 1

\* ---- C14 ----
\* C14: the link test, the command test and the stripping of the prefix of
\* one message all use one value of the prefix, the one current when the
\* message arrived: at every moment of a pass, also after a concurrent
\* handler has changed the prefix, its stage, command name and arguments are
\* those computed from its body with that one value.
C14_OnePrefix ==
    \A i \in Passes :
        LET p == passes[i]
            x == p.pfx
            body == p.msg.body
            isLink == ~StartsWith(body, x) /\ IsGroup(p.msg.from) /\ linkRegexTest(body)
            tokens == SplitSpaces(Trim(Slice(body, Len(x))))
        IN  (p.pc # "idle" /\ p.verdict = "Allowed") =>
            /\ p.stage = "link" <=> isLink
            /\ p.stage = "command" <=> StartsWith(body, x)
            /\ p.stage = "command" =>
                  /\ p.command = ToLowerCase(tokens[1])
                  /\ p.args = Tail(tokens)
            /\ p.stage \in {"greeting", "none"} <=> (~isLink /\ ~StartsWith(body, x))

\* ".ping" was classified under ".", and while its reply is awaited the
\* next message has set the prefix to "!"
C14_Witness ==
    \E i, j \in Passes :
        /\ passes[i].pc = "reply" /\ passes[i].msg.body = b_ping
        /\ passes[i].pfx = DefaultPrefix /\ passes[i].command = c_ping
        /\ passes[j].seq = passes[i].seq + 1
        /\ passes[j].command = c_setprefix /\ passes[j].args = <<(<<"!">>)>>
        /\ prefix = <<"!">>

\* ---- C15 ----
SlowDown(c) ==
    c.kind = "Reply" /\ c.text = "You're sending messages too quickly. Please slow down."

StopSpamming(p, c) ==
    c.kind = "SendToOrigin" /\ c.text = "Please stop spamming!" /\ c.to = <<p.sender>>

\* C15 as claimed: a finished pass of a SpamDetected message from a group
\* has issued a delete and then one warning mentioning exactly the sender;
\* from another origin it has issued exactly one slow-down reply and no delete.
C15_Original ==
    \A i \in Passes :
        LET p == passes[i]
        IN  (p.pc \in Terminal /\ p.verdict = "SpamDetected") =>
            IF IsGroup(p.msg.from)
            THEN /\ Len(p.out) = 2
                 /\ p.out[1].kind = "Delete"
                 /\ StopSpamming(p, p.out[2])
            ELSE Len(p.out) = 1 /\ SlowDown(p.out[1])

\* C15: a SpamDetected message from a group gets a delete request first
\* and, exactly when that delete succeeded, one warning whose mentions are
\* the sender alone (none when the delete failed, the failure being caught);
\* from another origin it gets exactly one slow-down reply and no delete; in
\* both cases the pass makes no other call and ends without an exception.
C15_SpamActions ==
    \A i \in Passes :
        LET p == passes[i]
        IN  (p.pc # "idle" /\ p.verdict = "SpamDetected") =>
            /\ p.pc # "rejected"
            /\ p.pc \in Terminal => \A k \in 1..Len(p.out) : p.out[k].res # "pending"
            /\ IF IsGroup(p.msg.from)
               THEN /\ p.out[1].kind = "Delete"
                    /\ Len(p.out) = (IF p.out[1].res = "ok" THEN 2 ELSE 1)
                    /\ Len(p.out) = 2 => StopSpamming(p, p.out[2])
               ELSE Len(p.out) = 1 /\ SlowDown(p.out[1])

\* a finished spam pass in a group with its delete and its warning, and a
\* finished spam pass of the same sender in a direct chat
C15_Witness ==
    \E i, j \in Passes :
        /\ passes[i].pc = "done" /\ passes[i].verdict = "SpamDetected"
        /\ IsGroup(passes[i].msg.from) /\ Len(passes[i].out) = 2
        /\ passes[i].out[1].res = "ok" /\ passes[i].out[2].to = <<A>>
        /\ passes[j].pc = "done" /\ passes[j].verdict = "SpamDetected"
        /\ ~IsGroup(passes[j].msg.from) /\ Len(passes[j].out) = 1

\* ---- C16 ----
\* the message is a setprefix command with exactly one argument under pfx
SetsPrefix(m, pfx) ==
    /\ StartsWith(m.body, pfx)
    /\ LET tokens == SplitSpaces(Trim(Slice(m.body, Len(pfx))))
       IN  ToLowerCase(tokens[1]) = c_setprefix /\ Len(tokens) = 2

RemovalsOf(p, id) == Calls(p, LAMBDA c : c.kind = "RemoveParticipant" /\ c.to = <<id>>)

KickedRepliesOf(p, id) ==
    Calls(p, LAMBDA c : /\ c.kind = "Reply" /\ c.to = <<id>>
                        /\ c.text = "has been kicked from the group.")

FailedRepliesOf(p, id) ==
    Calls(p, LAMBDA c : c.kind = "Reply" /\ c.to = <<id>> /\ c.text = "Failed to kick")

\* C17: a finished kick command from a group has made, for each mentioned
\* id, exactly one removal request and exactly one reply about that id: the
\* success reply if the request succeeded, the failure reply if it failed.
C17_KickReporting ==
    \A i \in Passes :
        LET p == passes[i]
        IN  (/\ p.pc \in Terminal /\ p.msg.body = b_kick /\ p.pfx = DefaultPrefix
             /\ IsGroup(p.msg.from))
            => \A n \in 1..Len(p.msg.mentionedIds) :
                  LET id == p.msg.mentionedIds[n]
                  IN  /\ Cardinality(RemovalsOf(p, id)) = 1
                      /\ Cardinality(KickedRepliesOf(p, id) \cup FailedRepliesOf(p, id)) = 1
                      /\ \A k \in RemovalsOf(p, id) :
                            /\ p.out[k].res = "ok" =>
                                  FailedRepliesOf(p, id) = {} /\ KickedRepliesOf(p, id) # {}
                            /\ p.out[k].res = "err" =>
                                  KickedRepliesOf(p, id) = {} /\ FailedRepliesOf(p, id) # {}

\* ---- C18 ----
\* the Allowed messages among the a-th to the b-th of the history of sender s
AllowedBetween(s, a, b) == {k \in a..b : recent[s][k].verdict = "Allowed"}

\* C18: of the messages of one sender that arrive within any interval of at
\* most spamInterval milliseconds, at most 2 * spamThreshold are Allowed.
C18_BurstBound ==
    \A s \in DOMAIN recent :
        \A a, b \in 1..Len(recent[s]) :
            (a <= b /\ recent[s][b].t - recent[s][a].t <= spamInterval)
            => Cardinality(AllowedBetween(s, a, b)) <= 2 * spamThreshold

\* ten Allowed messages within spamInterval: the five of one window and,
\* spamInterval after the first of them, the first five of the next window
C18_Witness ==
    \E s \in DOMAIN recent :
        \E a \in 1..Len(recent[s]) :
            LET b == a + 2 * spamThreshold - 1
            IN  /\ b <= Len(recent[s])
                /\ recent[s][b].t - recent[s][a].t = spamInterval
                /\ Cardinality(AllowedBetween(s, a, b)) = 2 * spamThreshold
                /\ recent[s][a + spamThreshold - 1].t < recent[s][a + spamThreshold].t
                /\ spamTracker[s] = [count |-> spamThreshold,
                                     firstMsgTime |-> recent[s][a + spamThreshold].t]

\* ---- C19 ----
\* C19: the step that receives a message creates or updates the window
\* under one key, the author of the message if it has one and the chat it
\* comes from otherwise, starting from the window that key had, and leaves
\* the window of every other sender as it was; the verdict is SpamDetected
\* exactly if more than spamThreshold messages under that key have arrived
\* since the start of that window; no other step writes any window.
C19_Isolation ==
    [][IF nmsgs' = nmsgs + 1
       THEN \E i \in Passes :
               LET m == passes'[i].msg
                   key == IF m.author # NoAuthor THEN m.author ELSE m.from
                   had == IF key \in DOMAIN spamTracker THEN spamTracker[key] ELSE NoWindow
               IN  /\ passes'[i].seq = nmsgs'
                   /\ DOMAIN spamTracker' = DOMAIN spamTracker \cup {key}
                   /\ \A s \in DOMAIN spamTracker \ {key} : spamTracker'[s] = spamTracker[s]
                   /\ spamTracker'[key] # had
                   /\ passes'[i].prev = had
                   /\ passes'[i].post = spamTracker'[key]
                   /\ passes'[i].verdict = "SpamDetected" <=>
                         Len(SelectSeq(recent'[key],
                                       LAMBDA e : e.t >= spamTracker'[key].firstMsgTime))
                            > spamThreshold
       ELSE spamTracker' = spamTracker]_vars

\* the author's message in group 2 continues the window of its message in
\* group 1 and is its 6th, so SpamDetected, while the window of the direct
\* chat U, opened in between the author's messages, still counts one
C19_Witness ==
    \E i, j \in Passes :
        /\ passes[i].msg.from = G1 /\ passes[i].msg.author = A
        /\ passes[j].msg.from = G2 /\ passes[j].msg.author = A
        /\ passes[j].seq = passes[i].seq + 1
        /\ passes[j].prev = passes[i].post
        /\ passes[j].post.count = spamThreshold + 1
        /\ passes[j].verdict = "SpamDetected"
        /\ spamTracker[A] = passes[j].post
        /\ U \in DOMAIN spamTracker
        /\ spamTracker[U] = [count |-> 1, firstMsgTime |-> 0]
        /\ DOMAIN spamTracker = {A, U}

====
